---- MODULE Spec2Model ----
(***************************************************************************)
(* ReadPars (rscherrer/readpars): a line-oriented reader of parameter      *)
(* files.  The model follows readpars.hpp (the class and its templates,    *)
(* src/README.md lines 158-393) and readpars.cpp (src/unnamed/part_000),   *)
(* with the checker functions of src/src/MAIN.cpp.                         *)
(*                                                                         *)
(* A line of text is a sequence of one-character strings.  The two         *)
(* std::istream objects of the class are modelled by what the library does *)
(* on them: `line` (std::istringstream) is a record of its text, its get   *)
(* position and its eofbit and failbit; `file` (std::ifstream) is a record *)
(* of is_open() and of the number of lines already extracted.  The text of *)
(* the file belongs to the environment: the number of its lines is fixed   *)
(* in Init, and the text of each line is chosen when std::getline extracts *)
(* it.                                                                     *)
(*                                                                         *)
(* A double is modelled exactly, as a decimal fraction [num, den] in       *)
(* lowest decimal terms (den a power of ten); binary rounding is not       *)
(* modelled.  The tokens of the model have no exponent, no "inf"/"nan" and *)
(* at most MaxTokLen characters, so every parsed double is finite.         *)
(***************************************************************************)
EXTENDS Integers, Sequences, FiniteSets, TLC

\* ------------------------------------------------------------------ bounds
\* Lines a file holds at most.
MaxLines == 2
\* Characters of the value token of a ValueLines line.
MaxTokLen == 3
\* Characters of a LayoutLines line.
MaxLineLen == 6
\* Largest vector size n passed to readvalues.
MaxN == 2

\* --------------------------------------------------------------- characters
Digits == {"0", "1", "9"}
\* A letter that is no part of a number ('e', 'E' and the like are left out).
Letters == {"a"}
Spaces == {" "}

\* std::isalnum in the "C" locale.
isalnum(c) == c \in Digits \cup Letters

\* std::isspace, as operator>> uses it to delimit tokens.
isspace(c) == c \in Spaces

DigitVal(c) == CASE c = "0" -> 0 [] c = "1" -> 1 [] c = "9" -> 9

\* Characters of the value tokens: digits, sign, decimal point, a letter and
\* ',' for the characters readnext refuses.
TokenChars == {"0", "1", "-", ".", "a", ","}
\* Characters of the layout lines: a token character, blank and '#'.
LayoutChars == {"1", " ", "#"}

SeqsUpTo(S, n) == UNION {[1..k -> S] : k \in 0..n}

\* "a <token>", "a 1 <token>" and "a 0 <token>": a name, then a value token of
\* any shape (or none), first on the line or after the value 1 or 0.
ValueLines == {<<"a", " ">> \o pre \o t :
                  pre \in {<<>>, <<"1", " ">>, <<"0", " ">>}, t \in SeqsUpTo(TokenChars, MaxTokLen)}
\* Any arrangement of tokens "1...", blanks and '#'.
LayoutLines == SeqsUpTo(LayoutChars, MaxLineLen)
\* The lines std::getline can deliver.
Lines == ValueLines \cup LayoutLines

\* The text of a sequence of characters as a string.
RECURSIVE Str(_)
Str(s) == IF s = <<>> THEN "" ELSE s[1] \o Str(Tail(s))

\* ------------------------------------------------------------ decimal values
RECURSIVE Pow10(_)
Pow10(k) == IF k = 0 THEN 1 ELSE 10 * Pow10(k - 1)

\* Lowest decimal terms: 1.50 and 1.5 are the same double.
RECURSIVE Norm(_)
Norm(x) == IF x.den > 1 /\ x.num % 10 = 0
           THEN Norm([num |-> x.num \div 10, den |-> x.den \div 10])
           ELSE x

Val(n) == [num |-> n, den |-> 1]

\* ------------------------------------------------------- std::istringstream
\* A stream over text s, as std::istringstream(s) or line.str(s) leaves it.
Stream(s) == [str |-> s, pos |-> 0, eof |-> FALSE, fail |-> FALSE]

good(s) == ~s.eof /\ ~s.fail

\* The unread characters of a stream.
Rest(s) == SubSeq(s.str, s.pos + 1, Len(s.str))

\* First position at or after p (characters consumed) where the next character
\* is no white space, or the end of the text.
SkipWs(str, p) == CHOOSE q \in p..Len(str) :
                     /\ \A r \in (p + 1)..q : isspace(str[r])
                     /\ q = Len(str) \/ ~isspace(str[q + 1])

\* First position at or after p where the next character is white space, or
\* the end of the text.
TokEnd(str, p) == CHOOSE q \in p..Len(str) :
                     /\ \A r \in (p + 1)..q : ~isspace(str[r])
                     /\ q = Len(str) \/ isspace(str[q + 1])

\* is >> std::string: the sentry fails a stream that is not good, else skips
\* white space; no character left sets eofbit and failbit and leaves the string
\* alone; else the string is replaced by the characters up to the next white
\* space, and eofbit is set when the text ends there.
ExtractString(s, input) ==
    IF ~good(s) THEN [s |-> [s EXCEPT !.fail = TRUE], input |-> input]
    ELSE LET b == SkipWs(s.str, s.pos) IN
         IF b = Len(s.str)
         THEN [s |-> [s EXCEPT !.pos = b, !.eof = TRUE, !.fail = TRUE],
               input |-> input]
         ELSE LET e == TokEnd(s.str, b) IN
              [s |-> [s EXCEPT !.pos = e, !.eof = (e = Len(s.str))],
               input |-> SubSeq(s.str, b + 1, e)]

EOF == "EOF"

\* is.peek(): the sentry (no white space skipped) fails a stream that is not
\* good; at the end of the text eofbit is set; both give traits::eof().
Peek(s) == IF ~good(s) THEN [s |-> [s EXCEPT !.fail = TRUE], c |-> EOF]
           ELSE IF s.pos = Len(s.str) THEN [s |-> [s EXCEPT !.eof = TRUE], c |-> EOF]
           ELSE [s |-> s, c |-> s.str[s.pos + 1]]

\* Characters num_get accumulates for a double from position i of a token: an
\* optional sign first, then digits with at most one decimal point.
RECURSIVE ScanFloat(_, _, _)
ScanFloat(t, i, dot) ==
    IF i > Len(t) THEN Len(t)
    ELSE IF t[i] \in Digits THEN ScanFloat(t, i + 1, dot)
    ELSE IF t[i] = "." /\ ~dot THEN ScanFloat(t, i + 1, TRUE)
    ELSE i - 1

\* The value of a run of digits and at most one point, as strtod reads it.
RECURSIVE Mantissa(_, _, _, _)
Mantissa(t, i, num, den) ==
    IF i > Len(t) THEN [num |-> num, den |-> den]
    ELSE IF t[i] = "." THEN Mantissa(t, i + 1, num, 1)
    ELSE Mantissa(t, i + 1, 10 * num + DigitVal(t[i]), IF den = 0 THEN 0 ELSE 10 * den)

\* stream >> x on a stream over the token t (double x), then stream >> leftover
\* (char): ok is `stream >> x`, left is `stream >> leftover`.
ParseDouble(t) ==
    LET neg  == t[1] = "-"
        from == IF neg THEN 2 ELSE 1
        k    == ScanFloat(t, from, FALSE)
        body == SubSeq(t, from, k)
        m    == Mantissa(body, 1, 0, 0)
        ok   == \E i \in 1..Len(body) : body[i] \in Digits
        mag  == [num |-> m.num, den |-> IF m.den = 0 THEN 1 ELSE m.den]
    IN [ok   |-> ok,
        left |-> ok /\ k < Len(t),
        x    |-> IF ok THEN Norm([mag EXCEPT !.num = IF neg THEN -(mag.num) ELSE mag.num])
                 ELSE Val(0)]

\* ------------------------------------------------------------- destinations
\* The destination types T of readvalue<T> and readvalues<T>.
Types == {"int", "unsigned", "double", "bool"}

\* A variant that does not count bool among the integral types.
is_integral_v_nobool(T) == T \in {"int", "unsigned", "int8_t", "uint8_t"}
is_integral_v(T) == T \in {"int", "unsigned", "bool", "int8_t", "uint8_t"}
is_unsigned_v(T) == T \in {"unsigned", "bool", "uint8_t"}
is_same_v_bool(T) == T = "bool"

\* std::isfinite: every double the model's tokens parse to is finite.
isfinite(x) == TRUE

\* std::floor(x) != x
HasFraction(x) == x.num % x.den # 0

\* x < 0.0 (minus zero is not below zero: its num is 0)
Negative(x) == x.num < 0

\* x > 1.0
AboveOne(x) == x.num > x.den

\* The integer part of x, rounded toward zero.
Trunc(x) == IF x.num >= 0 THEN x.num \div x.den ELSE -((-(x.num)) \div x.den)

\* static_cast<T>(x), for an x that T can hold: a bool is stored as 0 or 1, an
\* integer as the integer part.  Every double that reaches the cast is within
\* the range of int and unsigned here (the policing has refused the negatives
\* for unsigned, and the tokens are short); for the 8-bit types see Cast.
static_cast(T, x) ==
    CASE T = "double" -> x
      [] T = "bool"   -> Val(IF x.num # 0 THEN 1 ELSE 0)
      [] OTHER        -> Val(Trunc(x))

\* The 8-bit instances readvalue<std::int8_t> and readvalue<std::uint8_t>, whose
\* range the short tokens of the model can leave.
NarrowTypes == {"int8_t", "uint8_t"}

\* std::numeric_limits<T>::min() .. max() of the 8-bit types.
Representable(T) == IF T = "uint8_t" THEN 0..255 ELSE (-128)..127

\* What value = static_cast<T>(x) can leave in the destination, v being the
\* integer part of x: v itself if T can hold it; else the conversion is
\* undefined, and the destination may hold any value of T.
Cast(T, v) == IF v.num \in Representable(T) THEN {v}
              ELSE {Val(n) : n \in Representable(T)}

\* ------------------------------------------------------------------ checkers
\* check: nullptr or one of the checker functions of MAIN.cpp.
Checkers == {"nullptr", "checkpositive", "checkstrictpos", "checkprop"}

checkpositive(x) == IF x.num >= 0 THEN "" ELSE "must be positive"
checkstrictpos(x) == IF x.num > 0 THEN "" ELSE "must be strictly positive"
checkprop(x) == IF x.num >= 0 /\ x.num <= x.den THEN "" ELSE "must be between zero and one"

\* check ? check(value) : ""
Apply(check, v) ==
    CASE check = "nullptr"        -> ""
      [] check = "checkpositive"  -> checkpositive(v)
      [] check = "checkstrictpos" -> checkstrictpos(v)
      [] check = "checkprop"      -> checkprop(v)

\* What a vector-level checker `checks` may return ("" also stands for nullptr).
VecErrors == {"", "must be sorted"}

\* ---------------------------------------------------------------- the state
VARIABLES
    disk,      \* the environment: [exists, nlines] of the file at `filename`
    file,      \* std::ifstream file: [is_open, read (lines extracted so far)]
    count,     \* size_t count
    empty,     \* bool empty
    comment,   \* bool comment
    line,      \* std::istringstream line
    name,      \* std::string name
    pc,        \* where the caller is: "start", "loop", "line", "thrown", "closed"
    thrown,    \* what() of the exception the last call raised, "" if it returned
    value,     \* the scalar destination of the caller
    values,    \* the vector destination of the caller
    call       \* the last call, its arguments and what it did

vars == <<disk, file, count, empty, comment, line, name, pc, thrown, value, values, call>>

filename == "parameters.txt"

\* std::to_string(n)
DigitChar(d) == CASE d = 0 -> "0" [] d = 1 -> "1" [] d = 2 -> "2" [] d = 3 -> "3"
                  [] d = 4 -> "4" [] d = 5 -> "5" [] d = 6 -> "6" [] d = 7 -> "7"
                  [] d = 8 -> "8" [] d = 9 -> "9"
RECURSIVE to_string(_)
to_string(n) == IF n < 10 THEN DigitChar(n)
                ELSE to_string(n \div 10) \o DigitChar(n % 10)

NoError == ""

\* ------------------------------------------------------------ error messages
errorOpenFile == "Unable to open file " \o filename
errorEmptyFile == "File " \o filename \o " is empty"
errorReadName == "Could not read parameter name in line " \o to_string(count) \o " of file " \o filename
errorNoValue == "No value for parameter " \o name \o " in line " \o to_string(count) \o " of file " \o filename
errorReadValue == "Could not read value for parameter " \o name \o " in line " \o to_string(count) \o " of file " \o filename
errorParseValue == "Invalid value type for parameter " \o name \o " in line " \o to_string(count) \o " of file " \o filename
errorTooManyValues == "Too many values for parameter " \o name \o " in line " \o to_string(count) \o " of file " \o filename
errorTooFewValues == "Too few values for parameter " \o name \o " in line " \o to_string(count) \o " of file " \o filename
\* A variant that leaves the name out.
errorInvalidParameter_noname == "Invalid parameter in line " \o to_string(count) \o " of file " \o filename
errorInvalidParameter == "Invalid parameter: " \o name \o " in line " \o to_string(count) \o " of file " \o filename

\* A variant that leaves the name out.
checkerror_noname(error) ==
    IF error = "" THEN NoError
    ELSE "Parameter " \o error \o " in line " \o to_string(count) \o " of file " \o filename

\* checkerror(error): nothing for "", else the message it throws.
checkerror(error) ==
    IF error = "" THEN NoError
    ELSE "Parameter " \o name \o " " \o error \o " in line " \o to_string(count) \o " of file " \o filename

\* ------------------------------------------------------------------ probes
isopen == file.is_open

\* A variant that only looks whether the stream is open.
iseof_open == ~file.is_open

\* file.peek() == eof: nothing can be read from a stream that is not open or
\* whose lines are all extracted.
iseof == ~file.is_open \/ file.read = disk.nlines

\* line.peek() == eof, with what the peek does to the stream.
iseol(s) == LET p == Peek(s) IN [s |-> p.s, eol |-> p.c = EOF]

\* ---------------------------------------------------------------- tokenizing
\* A variant without the scan for invalid characters.
readnext_anychar(s, input) ==
    LET r == ExtractString(s, input)
    IN [ok |-> ~r.s.fail, s |-> r.s, input |-> r.input]

\* readnext(line, input): [ok, s, input].
readnext(s, input) ==
    LET r == ExtractString(s, input)
        error == r.s.fail
                 \/ \E i \in 1..Len(r.input) :
                       ~isalnum(r.input[i]) /\ r.input[i] # "." /\ r.input[i] # "-"
    IN [ok |-> ~error, s |-> r.s, input |-> r.input]

\* ------------------------------------------------------------------ reading
\* A variant without the check for unsigned types.
Refused_signed(T, x) ==
    \/ is_integral_v(T) /\ (~isfinite(x) \/ HasFraction(x))
    \/ is_same_v_bool(T) /\ AboveOne(x)

\* The type checks of read<T> on the parsed double x: TRUE if one throws.
Refused(T, x) ==
    \/ is_integral_v(T) /\ (~isfinite(x) \/ HasFraction(x))
    \/ is_unsigned_v(T) /\ Negative(x)
    \/ is_same_v_bool(T) /\ AboveOne(x)

\* The outcome of a read: s, the stream after it; thrown, the message thrown or
\* NoError; value, the destination after it; parsed, the token handed to the
\* number parser, if any; checked, the value handed to check, if any.
Outcome(s, msg, v, parsed, checked) ==
    [s |-> s, thrown |-> msg, value |-> v, parsed |-> parsed, checked |-> checked]

\* read<T>: the cast, the check and checkerror, on the policed double x.
readstore(s, T, check, tok, v) ==
    Outcome(s, checkerror(Apply(check, v)), v, <<tok>>,
            IF check = "nullptr" THEN <<>> ELSE <<v>>)

\* read<T>: the parse of the token and the type checks.
readparse(s, T, check, dest, tok, p) ==
    IF ~p.ok \/ p.left \/ Refused(T, p.x)
    THEN Outcome(s, errorParseValue, dest, <<tok>>, <<>>)
    ELSE readstore(s, T, check, tok, static_cast(T, p.x))

\* read<T>: after readnext(line, temp) gave r.
readtoken(r, T, check, dest) ==
    IF ~r.ok
    THEN Outcome(r.s, errorReadValue, dest, <<>>, <<>>)
    ELSE readparse(r.s, T, check, dest, r.input, ParseDouble(r.input))

\* read<T>(value, check) on stream s.
read(s, T, check, dest) == readtoken(readnext(s, <<>>), T, check, dest)

\* readvalue<T>: the end-of-line check after read gave r.
readvalueeol(r, e) ==
    IF r.thrown # NoError THEN r
    ELSE [r EXCEPT !.s = e.s,
                   !.thrown = IF ~e.eol THEN errorTooManyValues ELSE NoError]

\* readvalue<T>(value, check) on stream s.
readvalue(s, T, check, dest) ==
    LET r == read(s, T, check, dest) IN readvalueeol(r, iseol(r.s))

\* A variant that inserts at the front.
push_front(vals, v) == <<v>> \o vals

\* values.push_back(value)
push_back(vals, v) == Append(vals, v)

\* The while loop of readvalues<T>, entered with i values in vals:
\*   [s, thrown, values, i, parsed, checked] when the loop ends or throws.
RECURSIVE readloop(_, _, _, _, _, _, _, _)
readloop(s, T, n, check, i, vals, parsed, checked) ==
    LET e == iseol(s) IN
    IF e.eol
    THEN [s |-> e.s, thrown |-> NoError, values |-> vals, i |-> i,
          parsed |-> parsed, checked |-> checked]
    ELSE IF i = n
    THEN [s |-> e.s, thrown |-> errorTooManyValues, values |-> vals, i |-> i,
          parsed |-> parsed, checked |-> checked]
    ELSE LET r == read(e.s, T, check, Val(0)) IN
         IF r.thrown # NoError
         THEN [s |-> r.s, thrown |-> r.thrown, values |-> vals, i |-> i,
               parsed |-> parsed \o r.parsed, checked |-> checked \o r.checked]
         ELSE readloop(r.s, T, n, check, i + 1, push_back(vals, r.value),
                       parsed \o r.parsed, checked \o r.checked)

\* readvalues<T>: after the loop gave l; error is what checks returns on the
\* complete vector.
readvaluesend(l, n, error) ==
    IF l.thrown # NoError THEN l
    ELSE IF l.i # n THEN [l EXCEPT !.thrown = errorTooFewValues]
    ELSE [l EXCEPT !.thrown = checkerror(error)]

\* readvalues<T>(values, n, check, checks) on stream s.
readvalues(s, T, n, check, error) ==
    readvaluesend(readloop(s, T, n, check, 0, <<>>, <<>>, <<>>), n, error)

\* ------------------------------------------------------------ the caller
\* What the destinations hold before a read fills them.
OldValue == Val(7)
OldValues == <<Val(7), Val(7), Val(7)>>

\* The record of a call: the operation, its template and other arguments (or
\* the value a probe returned), what checks returned, the text it was given (the
\* line readline extracted; the unread text of the line before a read or
\* iseol), the tokens it handed to the number parser and the values it handed to
\* check.
Call(op, T, check, n, error, rest, parsed, checked) ==
    [op |-> op, T |-> T, check |-> check, n |-> n, error |-> error, rest |-> rest,
     parsed |-> parsed, checked |-> checked]

Plain(op) == Call(op, "", "", 0, "", <<>>, <<>>, <<>>)

Probe(op, ret, rest) ==
    Call(op, "", IF ret THEN "true" ELSE "false", 0, "", rest, <<>>, <<>>)

\* The lines of a file of n lines: any line of Lines for a file of one line, the
\* lines of ShortLines for a file of several.
ShortLines == {<<>>, <<"#">>, <<"#", "a">>, <<" ", "#">>, <<" ">>, <<"a">>,
               <<"a", " ", "1">>, <<"a", " ", "1", " ", "0">>}

FileLines(n) == IF n = 1 THEN Lines ELSE ShortLines

\* ---------------------------------------------------------------- actions
\* ReadPars r(filename): the constructor; the file is any file the bounds allow.
Init ==
    /\ disk \in [exists : BOOLEAN, nlines : 0..MaxLines]
    /\ file = [is_open |-> FALSE, read |-> 0]
    /\ count = 0
    /\ empty = FALSE
    /\ comment = FALSE
    /\ line = Stream(<<>>)
    /\ name = ""
    /\ pc = "start"
    /\ thrown = NoError
    /\ value = OldValue
    /\ values = OldValues
    /\ call = Plain("ReadPars")

\* r.open(), called once, on the session as constructed.
Open ==
    /\ pc = "start"
    /\ UNCHANGED <<disk, count, empty, comment, line, name, value, values>>
    /\ file' = [file EXCEPT !.is_open = disk.exists]
    /\ thrown' = IF ~isopen' THEN errorOpenFile
                 ELSE IF iseof' THEN errorEmptyFile
                 ELSE NoError
    /\ pc' = IF thrown' = NoError THEN "loop" ELSE "thrown"
    /\ call' = Plain("open")

\* r.iseof(): the probe of the loop condition, after open or after a line the
\* caller reads no value from.
IsEof ==
    /\ pc \in {"loop", "line"}
    /\ call' = Probe("iseof", iseof, <<>>)
    /\ pc' = "loop"
    /\ thrown' = NoError
    /\ UNCHANGED <<disk, file, count, empty, comment, line, name, value, values>>

\* A variant that looks for '#' after the leading blanks.
readlinetext_trimmed(temp) ==
    LET r == readnext(Stream(temp), <<>>)
        e == iseol(r.s)
        b == SkipWs(temp, 0)
    IN IF temp = <<>> \/ (b < Len(temp) /\ temp[b + 1] = "#")
       THEN [empty |-> temp = <<>>, comment |-> temp # <<>>, line |-> Stream(temp),
             name |-> "", throws |-> ""]
       ELSE IF ~r.ok
       THEN [empty |-> FALSE, comment |-> FALSE, line |-> r.s, name |-> Str(r.input),
             throws |-> "errorReadName"]
       ELSE [empty |-> FALSE, comment |-> FALSE, line |-> e.s, name |-> Str(r.input),
             throws |-> IF e.eol THEN "errorNoValue" ELSE ""]

\* reset(), then readline() on the line temp that std::getline extracted, but
\* for the count: [empty, comment, line, name, throws], throws naming the error
\* it throws, if any.
readlinetext(temp) ==
    LET r == readnext(Stream(temp), <<>>)
        e == iseol(r.s)
    IN IF temp = <<>> \/ temp[1] = "#"
       THEN [empty |-> temp = <<>>, comment |-> temp # <<>>, line |-> Stream(temp),
             name |-> "", throws |-> ""]
       ELSE IF ~r.ok
       THEN [empty |-> FALSE, comment |-> FALSE, line |-> r.s, name |-> Str(r.input),
             throws |-> "errorReadName"]
       ELSE [empty |-> FALSE, comment |-> FALSE, line |-> e.s, name |-> Str(r.input),
             throws |-> IF e.eol THEN "errorNoValue" ELSE ""]

\* A variant that counts the line after the early return for empty lines and
\* comments.
ReadLine_countlate ==
    /\ pc \in {"loop", "line", "read"}
    /\ isopen /\ ~iseof
    /\ \E temp \in FileLines(disk.nlines) :
         LET r == readlinetext(temp) IN
         /\ file' = [file EXCEPT !.read = @ + 1]
         /\ count' = IF r.empty \/ r.comment THEN count ELSE count + 1
         /\ empty' = r.empty
         /\ comment' = r.comment
         /\ line' = r.line
         /\ name' = r.name
         /\ thrown' = CASE r.throws = "errorReadName" -> errorReadName'
                         [] r.throws = "errorNoValue"  -> errorNoValue'
                         [] OTHER                      -> NoError
         /\ pc' = IF r.throws = "" THEN "line" ELSE "thrown"
         /\ call' = Call("readline", "", "", 0, "", temp, <<>>, <<>>)
    /\ value' = OldValue
    /\ values' = OldValues
    /\ UNCHANGED disk

\* r.readline(): asserts isopen() and !iseof(); temp is the line std::getline
\* extracts.  The caller hands fresh destinations to the reads of the new line.
ReadLine ==
    /\ pc \in {"loop", "line", "read"}
    /\ isopen /\ ~iseof
    /\ \E temp \in FileLines(disk.nlines) :
         LET r == readlinetext(temp) IN
         /\ file' = [file EXCEPT !.read = @ + 1]
         /\ count' = count + 1
         /\ empty' = r.empty
         /\ comment' = r.comment
         /\ line' = r.line
         /\ name' = r.name
         /\ thrown' = CASE r.throws = "errorReadName" -> errorReadName'
                         [] r.throws = "errorNoValue"  -> errorNoValue'
                         [] OTHER                      -> NoError
         /\ pc' = IF r.throws = "" THEN "line" ELSE "thrown"
         /\ call' = Call("readline", "", "", 0, "", temp, <<>>, <<>>)
    /\ value' = OldValue
    /\ values' = OldValues
    /\ UNCHANGED disk

\* r.iseol(), called on the line just read by a caller that then reads no value
\* from it.
IsEol ==
    /\ pc = "line"
    /\ line' = iseol(line).s
    /\ call' = Probe("iseol", iseol(line).eol, Rest(line))
    /\ pc' = "loop"
    /\ thrown' = NoError
    /\ UNCHANGED <<disk, file, count, empty, comment, name, value, values>>

\* r.readvalue<T>(value, check) on the line just read.
ReadValue ==
    /\ pc = "line"
    /\ \E T \in Types, check \in Checkers :
         LET r == readvalue(line, T, check, value) IN
         /\ line' = r.s
         /\ value' = r.value
         /\ thrown' = r.thrown
         /\ pc' = IF r.thrown = NoError THEN "read" ELSE "thrown"
         /\ call' = Call("readvalue", T, check, 0, "", Rest(line), r.parsed, r.checked)
    /\ UNCHANGED <<disk, file, count, empty, comment, name, values>>

\* r.readvalues<T>(values, n, check, checks) on the line just read; asserts
\* n != 0.  checks is consulted on a complete vector only.
ReadValues ==
    /\ pc = "line"
    /\ \E T \in Types, n \in 1..MaxN, check \in Checkers :
         LET l == readloop(line, T, n, check, 0, <<>>, <<>>, <<>>) IN
         \E error \in IF l.thrown = NoError /\ l.i = n THEN VecErrors ELSE {""} :
            LET r == readvaluesend(l, n, error) IN
            /\ line' = r.s
            /\ values' = r.values
            /\ thrown' = r.thrown
            /\ pc' = IF r.thrown = NoError THEN "read" ELSE "thrown"
            /\ call' = Call("readvalues", T, check, n, error, Rest(line), r.parsed, r.checked)
    /\ UNCHANGED <<disk, file, count, empty, comment, name, value>>

\* r.readerror(), in any state the caller gets to without an exception.
ReadError ==
    /\ pc \in {"start", "loop", "line", "read", "closed"}
    /\ thrown' = errorInvalidParameter
    /\ pc' = "thrown"
    /\ call' = Plain("readerror")
    /\ UNCHANGED <<disk, file, count, empty, comment, line, name, value, values>>

\* r.close(), on an open session.
Close ==
    /\ pc \in {"loop", "line"}
    /\ isopen
    /\ file' = [file EXCEPT !.is_open = FALSE]
    /\ pc' = "closed"
    /\ thrown' = NoError
    /\ call' = Plain("close")
    /\ UNCHANGED <<disk, count, empty, comment, line, name, value, values>>

Next == \/ Open
        \/ IsEof
        \/ ReadLine
        \/ IsEol
        \/ ReadValue
        \/ ReadValues
        \/ ReadError
        \/ Close

Spec == Init /\ [][Next]_vars

\* -------------------------------------------------- reads into 8-bit integers
\* Characters of the value tokens read into 8-bit integers: digits that give
\* values within and beyond 127 and 255, sign and decimal point.
NarrowChars == {"0", "1", "9", "-", "."}

\* "a <token>": a name and one value token.
NarrowLines == {<<"a", " ">> \o t : t \in SeqsUpTo(NarrowChars, MaxTokLen) \ {<<>>}}

\* r.readline(), the first of the session, on a line that holds a name and one
\* value token.
ReadLineNarrow ==
    /\ pc = "loop"
    /\ isopen /\ ~iseof
    /\ \E temp \in NarrowLines :
         LET r == readlinetext(temp) IN
         /\ file' = [file EXCEPT !.read = @ + 1]
         /\ count' = count + 1
         /\ empty' = r.empty
         /\ comment' = r.comment
         /\ line' = r.line
         /\ name' = r.name
         /\ thrown' = CASE r.throws = "errorReadName" -> errorReadName'
                         [] r.throws = "errorNoValue"  -> errorNoValue'
                         [] OTHER                      -> NoError
         /\ pc' = IF r.throws = "" THEN "line" ELSE "thrown"
         /\ call' = Call("readline", "", "", 0, "", temp, <<>>, <<>>)
    /\ value' = OldValue
    /\ values' = OldValues
    /\ UNCHANGED disk

\* r.readvalue<T>(value) for an 8-bit T, without a checker, on the line just
\* read.
ReadValueNarrow ==
    /\ pc = "line"
    /\ \E T \in NarrowTypes :
         LET r == readvalue(line, T, "nullptr", value) IN
         /\ line' = r.s
         /\ value' \in Cast(T, r.value)
         /\ thrown' = r.thrown
         /\ pc' = IF r.thrown = NoError THEN "read" ELSE "thrown"
         /\ call' = Call("readvalue", T, "nullptr", 0, "", Rest(line), r.parsed, r.checked)
    /\ UNCHANGED <<disk, file, count, empty, comment, name, values>>

NextNarrow == \/ Open
              \/ ReadLineNarrow
              \/ ReadValueNarrow

SpecNarrow == Init /\ [][NextNarrow]_vars

\* ============================================================== the claims
\* What the claims say of a line is stated on its text, apart from the stream
\* operations above: its tokens, and the decimal value a token denotes.

\* The positions where a token (a maximal run of characters that are no white
\* space) of the text t starts.
TokenStarts(t) == {i \in 1..Len(t) : t[i] \notin Spaces /\ (i = 1 \/ t[i - 1] \in Spaces)}

\* The token of t that starts at position i.
TokenAt(t, i) ==
    SubSeq(t, i, CHOOSE j \in i..Len(t) :
                    /\ \A k \in i..j : t[k] \notin Spaces
                    /\ j = Len(t) \/ t[j + 1] \in Spaces)

\* The tokens of t, in the order of the text.
Tokens(t) ==
    LET S == TokenStarts(t) IN
    [k \in 1..Cardinality(S) |->
        TokenAt(t, CHOOSE i \in S : Cardinality({j \in S : j < i}) = k - 1)]

\* A decimal numeral: digits with at most one point and an optional leading
\* minus sign, with one digit at least.
IsNumeral(tok) ==
    /\ \A i \in 1..Len(tok) : tok[i] \in Digits \cup {".", "-"}
    /\ \A i \in 2..Len(tok) : tok[i] # "-"
    /\ Cardinality({i \in 1..Len(tok) : tok[i] = "."}) <= 1
    /\ \E i \in 1..Len(tok) : tok[i] \in Digits

\* The sum of the digits at the positions S of tok, each weighted by its place
\* among the digit positions D.
RECURSIVE DigitSum(_, _, _)
DigitSum(tok, D, S) ==
    IF S = {} THEN 0
    ELSE LET i == CHOOSE i \in S : TRUE IN
         DigitVal(tok[i]) * Pow10(Cardinality({j \in D : j > i}))
            + DigitSum(tok, D, S \ {i})

\* The number a numeral denotes, as a decimal fraction in lowest decimal terms.
NumeralValue(tok) ==
    LET D    == {i \in 1..Len(tok) : tok[i] \in Digits}
        frac == {i \in D : \E d \in 1..(i - 1) : tok[d] = "."}
        abs  == DigitSum(tok, D, D)
    IN Norm([num |-> IF tok[1] = "-" THEN -abs ELSE abs,
             den |-> Pow10(Cardinality(frac))])

\* The token denotes a number below zero.
IsNegative(tok) == IsNumeral(tok) /\ NumeralValue(tok).num < 0

\* The token is a numeral that the type T can hold: a whole number for the
\* integer types and bool, none below zero for unsigned and bool, 0 or 1 for bool.
ValidFor(T, tok) ==
    /\ IsNumeral(tok)
    /\ T \in {"int", "unsigned", "bool"} => NumeralValue(tok).den = 1
    /\ T \in {"unsigned", "bool"} => NumeralValue(tok).num >= 0
    /\ T = "bool" => NumeralValue(tok).num <= 1

\* The value of type T a valid token denotes.
Stored(T, tok) == NumeralValue(tok)

\* The token is valid for T and the caller's checker accepts its value.
Accepts(T, check, tok) == ValidFor(T, tok) /\ Apply(check, Stored(T, tok)) = ""

\* A message about parameter nm in line n of the file.
Message(head, nm, n) ==
    head \o nm \o " in line " \o ToString(n) \o " of file parameters.txt"

IsRead == call.op \in {"readvalue", "readvalues"}

\* The value tokens ahead of the last read when it was called.
Ahead == Tokens(call.rest)

\* The last read got as far as the k-th token ahead of it: readvalue reads the
\* first; readvalues reads the k-th of the first n if the ones before it are
\* valid and accepted.
Reached(k) ==
    /\ IsRead
    /\ k \in 1..Len(Ahead)
    /\ IF call.op = "readvalue" THEN k = 1
       ELSE k <= call.n /\ \A j \in 1..(k - 1) : Accepts(call.T, call.check, Ahead[j])

\* C1: a negative numeral read by readvalue or readvalues into an unsigned
\* destination makes the read fail with "Invalid value type for parameter <name>
\* in line <n> of file <path>", and the destination holds no value made from it:
\* the scalar is as before, the vector holds the values of the tokens before it.
C1_NegativeIntoUnsignedFails ==
    \A k \in 1..Len(Ahead) :
        (Reached(k) /\ call.T = "unsigned" /\ IsNegative(Ahead[k]))
        => /\ thrown = Message("Invalid value type for parameter ", name, file.read)
           /\ call.op = "readvalue" => value = OldValue
           /\ call.op = "readvalues"
                => values = [j \in 1..(k - 1) |-> Stored(call.T, Ahead[j])]

\* C1 happens: readvalues<unsigned> meets a negative numeral as second value.
C1_Witness ==
    /\ call.op = "readvalues" /\ call.T = "unsigned"
    /\ Len(Ahead) = 2 /\ Reached(2) /\ IsNegative(Ahead[2])
    /\ thrown = "Invalid value type for parameter a in line 1 of file parameters.txt"

\* C2: on a data line "<name> <v1> ... <vn>" (no blank after vn) whose n value
\* tokens are valid for T and accepted by the checkers, readvalues<T>(dest, n)
\* returns, and dest is exactly the n values of v1..vn in the order of the line.
C2_ValuesInLineOrder ==
    LET toks == Tokens(line.str) IN
    ( /\ call.op = "readvalues"
      /\ ~empty /\ ~comment
      /\ Len(toks) = call.n + 1
      /\ line.str[Len(line.str)] \notin Spaces
      /\ call.error = ""
      /\ \A i \in 2..Len(toks) : Accepts(call.T, call.check, toks[i]) )
    => /\ thrown = NoError
       /\ values = [i \in 1..call.n |-> Stored(call.T, toks[i + 1])]

\* C2 happens: two different values, read in order.
C2_Witness ==
    /\ call.op = "readvalues" /\ call.n = 2 /\ thrown = NoError
    /\ Len(values) = 2 /\ values[1] # values[2]
    /\ Len(line.str) > 5

\* The tokens of the line the session holds.
LineTokens == Tokens(line.str)

\* The line the session holds is a data line: not empty and no comment.
DataLine == ~empty /\ ~comment

\* The characters a name or value token may hold.
NameValid(tok) == \A i \in 1..Len(tok) : tok[i] \in Digits \cup Letters \cup {".", "-"}

\* The line the session holds ends with a blank.
TrailingBlank == line.str # <<>> /\ line.str[Len(line.str)] \in Spaces

\* The first min(n, number of tokens) value tokens ahead are valid and accepted.
FirstAccepted(n) ==
    \A j \in 1..Len(Ahead) : j <= n => Accepts(call.T, call.check, Ahead[j])

\* C3: readvalues(dest, n) on a data line whose value tokens (the first n of
\* them) are valid fails with "Too few values for parameter ..." if the line has
\* fewer than n value tokens and with "Too many values for parameter ..." if it
\* has more, whatever white space separates or follows them; and in the second
\* case no more than n tokens are parsed or handed to the checker.
C3_TooFewTooMany ==
    (call.op = "readvalues" /\ DataLine /\ FirstAccepted(call.n))
    => /\ Len(Ahead) < call.n
            => thrown = Message("Too few values for parameter ", name, file.read)
       /\ Len(Ahead) > call.n
            => /\ thrown = Message("Too many values for parameter ", name, file.read)
               /\ Len(call.parsed) <= call.n
               /\ Len(call.checked) <= call.n

\* C3 without a blank at the end of the line.
C3_NoTrailingBlank ==
    TrailingBlank \/ C3_TooFewTooMany

\* C4: readvalue(dest) on a data line whose first value token is valid throws
\* "Too many values for parameter ..." if and only if another token follows it,
\* and returns if none does, whatever white space follows; and iseol() is true
\* exactly when no token remains ahead.
C4_TooManyIffTokenRemains ==
    /\ (call.op = "readvalue" /\ DataLine /\ Len(Ahead) >= 1 /\ FirstAccepted(1))
       => /\ thrown = Message("Too many values for parameter ", name, file.read)
             <=> Len(Ahead) >= 2
          /\ Len(Ahead) = 1 => thrown = NoError
    /\ call.op = "iseol" => (call.check = "true" <=> Len(Ahead) = 0)

\* C4 without a blank at the end of the line.
C4_NoTrailingBlank ==
    TrailingBlank \/ C4_TooManyIffTokenRemains

\* C5: readline() on a data line whose first token is a valid name throws "No
\* value for parameter <name> in line <n> of file <path>" whenever no token
\* follows the name, blanks after the name or not, and returns only if one does.
C5_NoValueWhenNameAlone ==
    (call.op = "readline" /\ DataLine /\ Len(LineTokens) >= 1 /\ NameValid(LineTokens[1]))
    => /\ Len(LineTokens) = 1
            => thrown = Message("No value for parameter ", Str(LineTokens[1]), file.read)
       /\ thrown = NoError => Len(LineTokens) >= 2

\* C5 without a blank at the end of the line.
C5_NoTrailingBlank ==
    TrailingBlank \/ C5_NoValueWhenNameAlone

\* C6, as claimed: a value token that is no numeral makes readvalue fail with
\* "Invalid value type for parameter <name> in line <n> of file <path>".
C6_AsClaimed ==
    (call.op = "readvalue" /\ Len(Ahead) >= 1 /\ ~IsNumeral(Ahead[1]))
    => thrown = Message("Invalid value type for parameter ", name, file.read)

\* C6, amended: a value token that is no numeral makes readvalue fail: with
\* "Invalid value type for parameter ..." if it holds only alphanumerics, '.'
\* and '-', and with "Could not read value for parameter ..." if it holds any
\* other character (such as ',').
C6_BadTokenFails ==
    (call.op = "readvalue" /\ Len(Ahead) >= 1 /\ ~IsNumeral(Ahead[1]))
    => thrown = IF NameValid(Ahead[1])
                THEN Message("Invalid value type for parameter ", name, file.read)
                ELSE Message("Could not read value for parameter ", name, file.read)

\* C6 happens: a token with ',' is refused before it is parsed.
C6_Witness ==
    /\ call.op = "readvalue"
    /\ Len(Ahead) = 1 /\ Ahead[1] = <<"1", ",", "1">>
    /\ thrown = "Could not read value for parameter a in line 1 of file parameters.txt"

\* The message of a checker's complaint m.
CheckMessage(m) ==
    "Parameter " \o name \o " " \o m \o " in line " \o ToString(file.read)
        \o " of file parameters.txt"

\* C7: the checker of a read is handed only values of tokens that are valid for
\* T (the i-th value it sees is the value of the i-th token); while it returns ""
\* nothing is raised for it, and its first complaint m ends the read at once
\* with "Parameter <name> <m> in line <n> of file <path>", for readvalue before
\* the end of the line is looked at.
C7_CheckerAfterPolicing ==
    IsRead =>
    /\ \A i \in 1..Len(call.checked) :
          /\ Reached(i)
          /\ ValidFor(call.T, Ahead[i])
          /\ call.checked[i] = Stored(call.T, Ahead[i])
          /\ Apply(call.check, call.checked[i]) # ""
                => /\ i = Len(call.checked)
                   /\ Len(call.parsed) = i
                   /\ thrown = CheckMessage(Apply(call.check, call.checked[i]))
    /\ (\A i \in 1..Len(call.checked) : Apply(call.check, call.checked[i]) = "")
          => thrown \notin {CheckMessage(m) : m \in {"must be positive",
                                "must be strictly positive", "must be between zero and one"}}
    /\ \A k \in 1..Len(Ahead) :
          (call.check # "nullptr" /\ Reached(k) /\ ValidFor(call.T, Ahead[k]))
          => Len(call.checked) >= k

\* C7 happens: readvalue with a checker that refuses the first of two values.
C7_Witness ==
    /\ call.op = "readvalue" /\ call.check = "checkstrictpos"
    /\ Len(Ahead) = 2 /\ Ahead[1] = <<"0">>
    /\ thrown = "Parameter a must be strictly positive in line 1 of file parameters.txt"

\* C8: open() ends in one of three ways: "Unable to open file <path>" if the
\* file cannot be opened, "File <path> is empty" if it holds nothing, and else it
\* returns with the session open, lines left to read and the line count 0.
C8_OpenOutcomes ==
    call.op = "open" =>
        IF ~disk.exists
        THEN thrown = "Unable to open file parameters.txt" /\ ~file.is_open
        ELSE IF disk.nlines = 0
        THEN thrown = "File parameters.txt is empty"
        ELSE /\ thrown = NoError
             /\ file.is_open
             /\ file.read < disk.nlines
             /\ ~iseof
             /\ count = 0

\* C8 happens: a file of no line.
C8_Witness ==
    /\ call.op = "open" /\ disk.exists /\ disk.nlines = 0
    /\ thrown = "File parameters.txt is empty"

\* The name on the line the session holds: its first token, none on an empty
\* line or a comment.
LatestName ==
    IF line.str = <<>> \/ line.str[1] = "#" \/ Len(LineTokens) = 0 THEN ""
    ELSE Str(LineTokens[1])

\* C9: readerror() throws "Invalid parameter: <name> in line <n> of file <path>"
\* in every state, <name> the name on the latest line, <n> the number of lines
\* extracted from the file so far (empty lines and comments counted).
C9_ReadErrorMessage ==
    call.op = "readerror"
    => /\ pc = "thrown"
       /\ thrown = "Invalid parameter: " \o LatestName \o " in line "
                      \o ToString(file.read) \o " of file parameters.txt"

\* C9 happens: an unknown name on the second line of a file.
C9_Witness ==
    /\ call.op = "readerror"
    /\ thrown = "Invalid parameter: a in line 2 of file parameters.txt"

\* C10: a read that throws leaves the destination without any value of the
\* line: the scalar as it was, the vector as it was or empty.
C10_FailedReadAtomic ==
    (IsRead /\ thrown # NoError)
    => /\ call.op = "readvalue" => value = OldValue
       /\ call.op = "readvalues" => values \in {OldValues, <<>>}

\* The text of the line the last readline extracted is not empty and does not
\* start with '#'.
ReadDataLine ==
    call.op = "readline" /\ call.rest # <<>> /\ call.rest[1] # "#"

\* The line has no token, or its first token holds a character that a name may
\* not hold.
NoValidName(t) == Len(Tokens(t)) = 0 \/ ~NameValid(Tokens(t)[1])

\* C11: readline() on a line that is not empty and no comment throws "Could not
\* read parameter name in line <n> of file <path>" if and only if the line has
\* no token or its first token holds a character other than an alphanumeric,
\* '.' or '-'; otherwise the name is exactly the first token.
C11_ReadNameErrorIff ==
    ReadDataLine
    => /\ ~empty /\ ~comment
       /\ thrown = "Could not read parameter name in line " \o ToString(file.read)
                      \o " of file parameters.txt"
            <=> NoValidName(call.rest)
       /\ ~NoValidName(call.rest) => name = Str(Tokens(call.rest)[1])

\* C11 happens: a blank and then '#' is no comment but a name that cannot be
\* read.
C11_Witness ==
    /\ call.op = "readline" /\ call.rest = <<" ", "#">>
    /\ ~comment
    /\ thrown = "Could not read parameter name in line 1 of file parameters.txt"

\* C12: the line counter is 0 on the session as constructed, every call of
\* readline() adds exactly 1 to it, however the call ends and whatever the line
\* is, and every other call (open, close, iseof, iseol, readvalue, readvalues,
\* readerror) leaves it as it is; so it never decreases and equals the number of
\* readline() calls made.
C12_CountsReadlineCalls ==
    /\ count = 0
    /\ [][IF call'.op = "readline" THEN count' = count + 1 ELSE count' = count]_vars

\* C12 happens: the second readline of a session ends in ReadNameError, and the
\* counter is 2.
C12_Witness ==
    /\ call.op = "readline" /\ count = 2
    /\ thrown = "Could not read parameter name in line 2 of file parameters.txt"

\* The flags and the text of the session are those of the line the last
\* readline extracted.
NewLineOnly ==
    /\ line.str = call.rest
    /\ empty = (call.rest = <<>>)
    /\ comment = (call.rest # <<>> /\ call.rest[1] = "#")

\* C13: after every readline(), returned or thrown, the session holds the new
\* line only, and getname() is not empty only if the line is not empty, no
\* comment, and its first token is a valid name: it is "" on an empty line, on a
\* comment and after ReadNameError.
C13_NameOnlyIfValid ==
    call.op = "readline"
    => /\ NewLineOnly
       /\ name # "" => ReadDataLine /\ ~NoValidName(call.rest)
       /\ thrown = "Could not read parameter name in line " \o ToString(file.read)
                      \o " of file parameters.txt"
            => name = ""

\* C13 but for the name after ReadNameError: the name is "" on empty lines and
\* comments, else the first token of the line, if any.
C13_NameIsFirstToken ==
    call.op = "readline"
    => /\ NewLineOnly
       /\ name = IF ReadDataLine /\ Len(Tokens(call.rest)) > 0
                 THEN Str(Tokens(call.rest)[1]) ELSE ""

\* C14: a numeral read into a bool is accepted only if its value is exactly 0 or
\* 1, and is then stored as false (0) or true (1); any other value (above 1,
\* below 0, or with a fraction) makes the read fail with "Invalid value type
\* for parameter <name> in line <n> of file <path>".
C14_BoolOnlyZeroOrOne ==
    \A k \in 1..Len(Ahead) :
        (Reached(k) /\ call.T = "bool" /\ IsNumeral(Ahead[k]))
        => IF NumeralValue(Ahead[k]) \in {Val(0), Val(1)}
           THEN /\ Len(call.parsed) >= k
                /\ Len(call.parsed) = k
                     => thrown # Message("Invalid value type for parameter ", name, file.read)
                /\ call.op = "readvalue" => value = NumeralValue(Ahead[k])
                /\ (call.op = "readvalues" /\ Accepts("bool", call.check, Ahead[k]))
                     => Len(values) >= k /\ values[k] = NumeralValue(Ahead[k])
           ELSE /\ thrown = Message("Invalid value type for parameter ", name, file.read)
                /\ Len(call.parsed) = k
                /\ call.op = "readvalue" => value = OldValue
                /\ call.op = "readvalues" => Len(values) = k - 1

\* C14 happens: a fraction between 0 and 1 is refused for a bool.
C14_Witness ==
    /\ call.op = "readvalue" /\ call.T = "bool"
    /\ Ahead = <<(<<"0", ".", "1">>)>>
    /\ thrown = "Invalid value type for parameter a in line 1 of file parameters.txt"

\* The last read was a readvalue into an 8-bit integer and met a numeral.
NarrowRead ==
    /\ call.op = "readvalue" /\ call.T \in NarrowTypes
    /\ Len(Ahead) = 1 /\ IsNumeral(Ahead[1])

\* C15: when a readvalue into an 8-bit integer returns, the value stored is the
\* value of the token; a token with a fraction is refused with "Invalid value
\* type for parameter ...", and a whole number that the type cannot hold is
\* refused too, not stored changed.
C15_StoredEqualsToken ==
    NarrowRead
    => /\ thrown = NoError => value = NumeralValue(Ahead[1])
       /\ NumeralValue(Ahead[1]).den # 1
            => thrown = Message("Invalid value type for parameter ", name, file.read)
       /\ (NumeralValue(Ahead[1]).den = 1
              /\ NumeralValue(Ahead[1]).num \notin Representable(call.T))
            => thrown # NoError /\ value = OldValue

\* C15 for the tokens whose value the type can hold, and for fractions.
C15_WithinRange ==
    (NarrowRead /\ (NumeralValue(Ahead[1]).den = 1
                       => NumeralValue(Ahead[1]).num \in Representable(call.T)))
    => /\ thrown = NoError => value = NumeralValue(Ahead[1])
       /\ NumeralValue(Ahead[1]).den # 1
            => thrown = Message("Invalid value type for parameter ", name, file.read)
       /\ NumeralValue(Ahead[1]).den = 1 => thrown = NoError

\* A whole number beyond the range of the type is read without any error.
C15_BeyondRangeAccepted ==
    /\ NarrowRead /\ call.T = "int8_t" /\ Ahead[1] = <<"9", "9", "9">>
    /\ thrown = NoError /\ value = Val(-25)

====
